---------------------------- MODULE Spec2Model ----------------------------
(***************************************************************************)
(* State-machine model of the AetherDocs browser client:                   *)
(*   - SessionPage   (session start, sequential uploads, synthesis run     *)
(*                    with status polling and an overall timeout),         *)
(*   - CommonBookPage (chat, revoke, citation rendering),                  *)
(*   - the router of App.tsx.                                              *)
(* The backend is an opaque HTTP service: every request in flight is       *)
(* answered, at any later moment, by a failure or by any well-typed        *)
(* response.  A handler runs atomically up to its next await, as on the    *)
(* JavaScript event loop.  Closures keep the values they captured: a       *)
(* timer or a pending promise of an unmounted page still runs, its state   *)
(* setters are then no-ops, its navigate() and toast() still act.          *)
(***************************************************************************)
EXTENDS Integers, Sequences, FiniteSets, TLC

----------------------------------------------------------------------------
(* Bounds of the model *)

MaxRuns == 1        \* synthesis runs started since the last page load
MaxPolls == 1       \* status requests issued by one run
WideRuns == 2       \* the same two, in the specification SpecWide
WidePolls == 2
MaxBatches == 1     \* upload batches started since the last page load
MaxFiles == 2       \* files in one batch
ClientFiles == 1    \* the same, in the specification Spec
WideBatches == 2    \* upload batches, in the specification SpecBatches
MaxMessages == 1    \* chat queries sent from one CommonBookPage
BookMessages == 2   \* the same, in the specification SpecBook
MaxRevokes == 1     \* revoke requests in flight for one session
MaxCits == 3        \* citations in one rendered list
MaxEffects == 2     \* runs of the effect of MetricsPanel
MaxFetches == 2     \* metrics requests issued by one run of the effect
MaxSelects == 1     \* handleFileSelect calls since the last page load

----------------------------------------------------------------------------
(* Values *)

NoSession == "null"                 \* sessionId === null / undefined
SessionIds == {"", "s1", "s2"}      \* session_id values the server may return
\* a variant that tests sessionId === null only
FalsyNullOnly(s) == s = NoSession
Falsy(s) == s \in {NoSession, ""}   \* JavaScript !s for string | null

Routes == {"/", "/session", "/common-book"}

FileNames == {"a", "b"}
UploadTypes == {"documents", "media", "images"}
SourceTypes == {"pdf", "docx", "pptx", "video", "audio", "image", "youtube"}

Statuses == {"queued", "processing", "completed", "failed", "weird"}

\* what fetch may come back with: a response with response.ok, a response
\* without it, or no response at all (fetch throws)
HttpOutcomes == {"ok", "notok", "neterr"}

\* a variant that never looks at response.ok
requestIgnoresStatus(o) == IF o = "neterr" THEN "TypeError" ELSE "json"

\* AetherDocsClient.request: what the returned promise settles with, "json"
\* for resolved with the parsed body, else the error it rejects with
request(o) ==
  IF o = "neterr" THEN "TypeError"
  ELSE IF o # "ok" THEN "API Error"
  ELSE "json"

Resolves == {o \in HttpOutcomes : request(o) = "json"}
Rejects == HttpOutcomes \ Resolves

NoToast == <<"none", "">>
NoReq == <<"none", NoSession, 0>>
NoEv == [op |-> "none", id |-> 0, n |-> 0, sid |-> NoSession, arg |-> "",
         http |-> "none", err |-> "", query |-> <<>>,
         answer |-> <<>>, citations |-> <<>>,
         before |-> <<>>, after |-> <<>>,
         type |-> "", src |-> "", live |-> FALSE, nav |-> "",
         toast |-> NoToast, fail |-> FALSE, req |-> NoReq, issued |-> {}]

VARIABLES
  route,            \* current location.pathname
  routeState,       \* location.state.sessionId, NoSession when absent
  sessionId,        \* SessionPage state
  isSynthesizing,   \* SessionPage state
  documentFiles,    \* SessionPage state
  mediaFiles,       \* SessionPage state
  imageFiles,       \* SessionPage state
  uploadingFiles,   \* SessionPage state
  startReq,         \* startSession requests in flight
  batches,          \* handleFileUpload calls: one record per batch
  runs,             \* handleSynthesize calls: one record per run
  messages,         \* CommonBookPage state
  inputValue,       \* CommonBookPage state
  isLoading,        \* CommonBookPage state
  pdfUrl,           \* CommonBookPage state
  chatReq,          \* chatQuery requests in flight
  revokeReq,        \* revokeSession requests in flight, by session id
  returned,         \* history: session_id returned to the mounted SessionPage
  revoked,          \* history: session ids whose revoke succeeded
  cits,             \* the citations of the assistant message being rendered
  rendered,         \* the citation chips rendered for it
  metricsPanel,     \* MetricsPanel: its sessionId prop and its state
  effects,          \* MetricsPanel: one record per run of its effect
  topUploadPanel,   \* TopUploadPanel (optimistic version): its state
  selects,          \* handleFileSelect calls: one record per call
  ev                \* the last handler that ran and what it did

sessVars == <<sessionId, isSynthesizing, documentFiles, mediaFiles,
              imageFiles, uploadingFiles>>
bookVars == <<messages, inputValue, isLoading, pdfUrl>>
navVars == <<route, routeState>>
netVars == <<startReq, batches, runs, chatReq, revokeReq>>
histVars == <<returned, revoked>>
citVars == <<cits, rendered>>
metricsVars == <<metricsPanel, effects>>
panelVars == <<topUploadPanel, selects>>
vars == <<route, routeState, sessionId, isSynthesizing, documentFiles,
          mediaFiles, imageFiles, uploadingFiles, startReq, batches, runs,
          messages, inputValue, isLoading, pdfUrl, chatReq, revokeReq,
          returned, revoked, cits, rendered, metricsPanel, effects,
          topUploadPanel, selects, ev>>

----------------------------------------------------------------------------
(* Page mounting and the router *)

\* A pending request or timer belongs to the page instance that started it.
\* Its record is "live" while that instance is mounted; when the page
\* unmounts every record of it goes stale: the closure still runs, its
\* state setters no longer change anything.
Stale(recs) == [k \in 1..Len(recs) |-> [recs[k] EXCEPT !.live = FALSE]]
StaleSet(recs) == { [q EXCEPT !.live = FALSE] : q \in recs }

\* startSession requests in flight: the one of the mounted SessionPage, and
\* whether any of an unmounted SessionPage is left
NoStart == [live |-> FALSE, stale |-> FALSE]
StaleStart == [live |-> FALSE, stale |-> startReq.live \/ startReq.stale]

\* navigate(to): the mounted page unmounts unless the route stays the same
NavStale(to, recs) == IF to = route THEN recs ELSE Stale(recs)
NavStaleSet(to, recs) == IF to = route THEN recs ELSE StaleSet(recs)

PdfUrl(sid) == <<"download", sid, "commonbook">>

\* useState initial values of TopUploadPanel
TopPanelFresh == [documentFiles |-> <<>>, mediaFiles |-> <<>>,
                  imageFiles |-> <<>>, uploadingFiles |-> {}]

\* TopUploadPanel is rendered by SessionPage: navigate(to) away from the
\* session page unmounts it with the page
TopPanelUnmount(to) ==
  /\ topUploadPanel' = IF to = route THEN topUploadPanel ELSE TopPanelFresh
  /\ selects' = NavStale(to, selects)

\* MetricsPanel before it is mounted; useState initial values
NoMetrics == "null"
MetricsPanelFresh == [mounted |-> FALSE, sessionId |-> NoSession,
                      metrics |-> NoMetrics, loading |-> FALSE]

\* useState initial values of SessionPage; also the values of "no page"
SessionPageFresh ==
  /\ sessionId' = NoSession
  /\ isSynthesizing' = FALSE
  /\ documentFiles' = <<>>
  /\ mediaFiles' = <<>>
  /\ imageFiles' = <<>>
  /\ uploadingFiles' = {}
  /\ returned' = NoSession

\* useState initial values of CommonBookPage
BookPageFresh ==
  /\ messages' = <<>>
  /\ inputValue' = <<>>
  /\ isLoading' = FALSE

\* <Route path="/"> : LandingPage, no session state
MountLanding ==
  /\ route' = "/"
  /\ routeState' = NoSession
  /\ SessionPageFresh
  /\ BookPageFresh
  /\ pdfUrl' = ""
  /\ startReq' = StaleStart

\* <Route path="/session"> : SessionPage mounts, its effect calls startSession
MountSession ==
  /\ route' = "/session"
  /\ routeState' = NoSession
  /\ SessionPageFresh
  /\ BookPageFresh
  /\ pdfUrl' = ""
  /\ startReq' = [StaleStart EXCEPT !.live = TRUE]

\* <Route path="/common-book"> with a truthy location.state.sessionId:
\* the effect sets the PDF URL.  A page that is already mounted keeps its
\* state and re-runs the effect for the new sessionId.
MountBook(sid) ==
  /\ ~Falsy(sid)
  /\ route' = "/common-book"
  /\ routeState' = sid
  /\ SessionPageFresh
  /\ pdfUrl' = PdfUrl(sid)
  /\ IF route = "/common-book"
       THEN UNCHANGED <<messages, inputValue, isLoading>>
       ELSE BookPageFresh
  /\ startReq' = StaleStart

InitClient ==
  /\ route = "/"
  /\ routeState = NoSession
  /\ sessionId = NoSession
  /\ isSynthesizing = FALSE
  /\ documentFiles = <<>>
  /\ mediaFiles = <<>>
  /\ imageFiles = <<>>
  /\ uploadingFiles = {}
  /\ startReq = NoStart
  /\ batches = <<>>
  /\ runs = <<>>
  /\ messages = <<>>
  /\ inputValue = <<>>
  /\ isLoading = FALSE
  /\ pdfUrl = ""
  /\ chatReq = {}
  /\ revokeReq = [s \in SessionIds |-> 0]
  /\ returned = NoSession
  /\ revoked = {}
  /\ metricsPanel = MetricsPanelFresh
  /\ effects = <<>>
  /\ topUploadPanel = TopPanelFresh
  /\ selects = <<>>
  /\ ev = NoEv

\* the application loaded at "/"; no assistant message to render yet
Init ==
  /\ InitClient
  /\ cits = <<>>
  /\ rendered = [done |-> TRUE, chips |-> <<>>]

\* LandingPage.handleStartSession: navigate('/session')
handleStartSession ==
  /\ route = "/"
  /\ MountSession
  /\ batches' = NavStale("/session", batches)
  /\ runs' = NavStale("/session", runs)
  /\ chatReq' = NavStaleSet("/session", chatReq)
  /\ ev' = [NoEv EXCEPT !.op = "startSessionClick"]
  /\ TopPanelUnmount("/session")
  /\ UNCHANGED <<revokeReq, revoked, citVars, metricsVars>>

\* SessionNavbar logo: navigate('/')
SessionNavbarHome ==
  /\ route = "/session"
  /\ MountLanding
  /\ batches' = NavStale("/", batches)
  /\ runs' = NavStale("/", runs)
  /\ chatReq' = NavStaleSet("/", chatReq)
  /\ ev' = [NoEv EXCEPT !.op = "navbarHome"]
  /\ TopPanelUnmount("/")
  /\ UNCHANGED <<revokeReq, revoked, citVars, metricsVars>>

\* The document is (re)loaded at a typed URL: every timer, promise and page
\* of the old document is gone.  App.tsx onNavigateHome is the case u = "/".
\* "/common-book" is entered without route state: CommonBookPage renders
\* with sessionId undefined, its effect has not run yet.
LoadUrl(u) ==
  /\ route' = u
  /\ routeState' = NoSession
  /\ SessionPageFresh
  /\ BookPageFresh
  /\ pdfUrl' = ""
  /\ startReq' = [live |-> u = "/session", stale |-> FALSE]
  /\ batches' = <<>>
  /\ runs' = <<>>
  /\ chatReq' = {}
  /\ revokeReq' = [s \in SessionIds |-> 0]
  /\ revoked' = {}
  /\ topUploadPanel' = TopPanelFresh
  /\ selects' = <<>>
  /\ ev' = [NoEv EXCEPT !.op = "load", !.arg = u]
  /\ UNCHANGED <<citVars, metricsVars>>

\* the effect of a CommonBookPage that has no sessionId: error toast and
\* navigate('/session')
bookEffectNoSession ==
  /\ route = "/common-book"
  /\ Falsy(routeState)
  /\ MountSession
  /\ batches' = NavStale("/session", batches)
  /\ runs' = NavStale("/session", runs)
  /\ chatReq' = NavStaleSet("/session", chatReq)
  /\ TopPanelUnmount("/session")
  /\ ev' = [NoEv EXCEPT !.op = "bookEffect", !.nav = "/session",
              !.toast = <<"error", "No session ID found. Redirecting...">>]
  /\ UNCHANGED <<revokeReq, revoked, citVars, metricsVars>>

\* CommonBookPage logo: onNavigateHome = () => window.location.href = '/'
onNavigateHome ==
  /\ route = "/common-book"
  /\ LoadUrl("/")

\* The user opens the session page or the common-book page by its URL
OpenUrl ==
  \E u \in {"/session", "/common-book"} : LoadUrl(u)

----------------------------------------------------------------------------
(* SessionPage: initSession *)

\* startSession of the mounted SessionPage resolves with session_id sid
initSessionOk(sid) ==
  /\ startReq.live
  /\ startReq' = [startReq EXCEPT !.live = FALSE]
  /\ sessionId' = sid
  /\ returned' = sid
  /\ \E o \in Resolves :
       ev' = [NoEv EXCEPT !.http = o,
               !.op = "initSessionOk", !.sid = sid]
  /\ UNCHANGED <<navVars, isSynthesizing, documentFiles, mediaFiles,
                 imageFiles, uploadingFiles, bookVars, batches, runs,
                 chatReq, revokeReq, revoked, citVars, metricsVars, panelVars>>

\* startSession of the mounted SessionPage rejects
initSessionFail ==
  /\ startReq.live
  /\ startReq' = [startReq EXCEPT !.live = FALSE]
  /\ \E o \in Rejects :
       ev' = [NoEv EXCEPT !.http = o, !.err = request(o),
              !.op = "initSessionFail", !.fail = TRUE,
              !.req = <<"start", NoSession, 0>>,
              !.toast = <<"error", "Failed to initialize session. Please refresh the page.">>]
  /\ UNCHANGED <<navVars, sessVars, bookVars, batches, runs, chatReq,
                 revokeReq, histVars, citVars, metricsVars, panelVars>>

\* startSession of an unmounted SessionPage settles: setSessionId changes
\* nothing, a failure still raises its toast; others may remain in flight
initSessionStale(ok, more) ==
  /\ startReq.stale
  /\ startReq' = [startReq EXCEPT !.stale = more]
  /\ \E o \in (IF ok THEN Resolves ELSE Rejects) :
       ev' = IF ok
             THEN [NoEv EXCEPT !.op = "initSessionStale", !.http = o]
             ELSE [NoEv EXCEPT !.op = "initSessionStale", !.fail = TRUE,
                     !.http = o, !.err = request(o),
                     !.req = <<"start", NoSession, 0>>,
                     !.toast = <<"error", "Failed to initialize session. Please refresh the page.">>]
  /\ UNCHANGED <<navVars, sessVars, bookVars, batches, runs, chatReq,
                 revokeReq, histVars, citVars, metricsVars, panelVars>>

----------------------------------------------------------------------------
(* SessionPage: handleSynthesize *)

\* <button disabled={isSynthesizing || !sessionId}>
SynthButtonDisabled == isSynthesizing \/ Falsy(sessionId)

NewRun == [sid |-> sessionId, live |-> TRUE, isSynthesizing |-> isSynthesizing,
           trig |-> "pending", interval |-> FALSE, timer |-> FALSE,
           inflight |-> 0, polls |-> 0, termSeen |-> FALSE, timedOut |-> FALSE,
           handled |-> {}]

\* click on the button: the guard, setIsSynthesizing(true) and the
\* triggerSynthesis request.  The run keeps the sessionId and the
\* isSynthesizing of the render whose handler was called.
handleSynthesize ==
  /\ route = "/session"
  /\ ~SynthButtonDisabled
  /\ IF Falsy(sessionId)
       THEN /\ ev' = [NoEv EXCEPT !.op = "handleSynthesize",
                        !.toast = <<"error", "No active session found.">>]
            /\ UNCHANGED <<isSynthesizing, runs>>
       ELSE /\ isSynthesizing' = TRUE
            /\ runs' = Append(runs, NewRun)
            /\ ev' = [NoEv EXCEPT !.op = "handleSynthesize", !.id = Len(runs) + 1,
                        !.sid = sessionId,
                        !.issued = {<<"trigger", sessionId, Len(runs) + 1>>}]
  /\ UNCHANGED <<navVars, sessionId, documentFiles, mediaFiles,
                 imageFiles, uploadingFiles, bookVars, startReq, batches,
                 chatReq, revokeReq, histVars, citVars, metricsVars, panelVars>>

\* a variant whose setIsSynthesizing calls change nothing
SetSynthIgnored(r, v) == isSynthesizing

\* setIsSynthesizing(v) called from a closure of run r: a no-op once the
\* SessionPage of that run is unmounted
SetSynthFrom(r, v) == IF runs[r].live THEN v ELSE isSynthesizing

\* triggerSynthesis resolves: setInterval and setTimeout are armed
triggerOk(r) ==
  /\ r \in 1..Len(runs)
  /\ runs[r].trig = "pending"
  /\ runs' = [runs EXCEPT ![r].trig = "ok", ![r].interval = TRUE,
                          ![r].timer = TRUE]
  /\ \E o \in Resolves :
       ev' = [NoEv EXCEPT !.http = o,
              !.op = "triggerOk", !.id = r, !.sid = runs[r].sid,
              !.toast = <<"success", "Synthesis started!">>]
  /\ UNCHANGED <<navVars, sessVars, bookVars, startReq, batches, chatReq,
                 revokeReq, histVars, citVars, metricsVars, panelVars>>

\* a variant whose catch block arms the polling all the same
AfterTriggerFailurePolls(run) == [run EXCEPT !.trig = "fail", !.interval = TRUE]

\* the run after the outer catch: lines 92-121 were skipped
AfterTriggerFailure(run) == [run EXCEPT !.trig = "fail"]

\* triggerSynthesis rejects: outer catch
triggerFail(r) ==
  /\ r \in 1..Len(runs)
  /\ runs[r].trig = "pending"
  /\ runs' = [runs EXCEPT ![r] = AfterTriggerFailure(@)]
  /\ isSynthesizing' = SetSynthFrom(r, FALSE)
  /\ \E o \in Rejects :
       ev' = [NoEv EXCEPT !.http = o, !.err = request(o),
              !.op = "triggerFail", !.id = r, !.sid = runs[r].sid,
              !.live = runs[r].live,
              !.fail = TRUE, !.req = <<"trigger", runs[r].sid, r>>,
              !.toast = <<"error", "Failed to start synthesis.">>]
  /\ UNCHANGED <<navVars, sessionId, documentFiles, mediaFiles,
                 imageFiles, uploadingFiles, bookVars, startReq, batches,
                 chatReq, revokeReq, histVars, citVars, metricsVars, panelVars>>

\* the interval callback fires: getStatus(sessionId) is issued
pollTick(r) ==
  /\ r \in 1..Len(runs)
  /\ runs[r].interval
  /\ runs' = [runs EXCEPT ![r].inflight = @ + 1, ![r].polls = @ + 1]
  /\ ev' = [NoEv EXCEPT !.op = "pollTick", !.id = r, !.sid = runs[r].sid,
              !.issued = {<<"status", runs[r].sid, runs[r].polls + 1>>}]
  /\ UNCHANGED <<navVars, sessVars, bookVars, startReq, batches, chatReq,
                 revokeReq, histVars, citVars, metricsVars, panelVars>>

\* a variant that forgets to clear the interval
ClearIntervalForgotten(run) == run

\* clearInterval(pollInterval) of a run
ClearInterval(run) == [run EXCEPT !.interval = FALSE]

\* a variant that treats every status it does not know as a failure
StatusBranchUnknownFails(st) ==
  IF st = "completed" THEN "completed"
  ELSE IF st \in {"queued", "processing"} THEN "progress"
  ELSE "failed"

\* which branch of the status handler a response takes
StatusBranch(st) ==
  IF st = "completed" THEN "completed"
  ELSE IF st = "failed" THEN "failed"
  ELSE "progress"

\* getStatus resolves with status st
statusOk(r, st) ==
  /\ r \in 1..Len(runs)
  /\ runs[r].inflight > 0
  /\ LET got == [runs EXCEPT ![r].inflight = @ - 1]
         done == [got EXCEPT ![r] = [ClearInterval(@) EXCEPT !.termSeen = TRUE]]
     IN CASE StatusBranch(st) = "completed" ->
               /\ runs' = NavStale("/common-book",
                                   [done EXCEPT ![r].handled = @ \cup {"completed"}])
               /\ batches' = NavStale("/common-book", batches)
               /\ chatReq' = NavStaleSet("/common-book", chatReq)
               /\ MountBook(runs[r].sid)
               /\ ev' = [NoEv EXCEPT !.op = "status", !.id = r,
                           !.sid = runs[r].sid, !.arg = st,
                           !.live = runs[r].live, !.nav = "/common-book",
                           !.toast = <<"success", "Synthesis completed!">>]
               /\ TopPanelUnmount("/common-book")
               /\ UNCHANGED <<revokeReq, revoked, citVars, metricsVars>>
          [] StatusBranch(st) = "failed" ->
               /\ runs' = [done EXCEPT ![r].handled = @ \cup {"failed"}]
               /\ isSynthesizing' = SetSynthFrom(r, FALSE)
               /\ ev' = [NoEv EXCEPT !.op = "status", !.id = r,
                           !.sid = runs[r].sid, !.arg = st,
                           !.live = runs[r].live,
                           !.toast = <<"error", "Synthesis failed">>]
               /\ UNCHANGED <<navVars, sessionId, documentFiles, mediaFiles,
                              imageFiles, uploadingFiles, bookVars, startReq,
                              batches, chatReq, revokeReq, histVars, citVars,
                              metricsVars, panelVars>>
          [] OTHER ->
               /\ runs' = got
               /\ ev' = [NoEv EXCEPT !.op = "status", !.id = r,
                           !.sid = runs[r].sid, !.arg = st,
                           !.live = runs[r].live,
                           !.toast = <<"info", "progress">>]
               /\ UNCHANGED <<navVars, sessVars, bookVars, startReq, batches,
                              chatReq, revokeReq, histVars, citVars,
                              metricsVars, panelVars>>

\* getStatus rejects: catch (pollError) { console.error(...) }
statusError(r) ==
  /\ r \in 1..Len(runs)
  /\ runs[r].inflight > 0
  /\ runs' = [runs EXCEPT ![r].inflight = @ - 1]
  /\ ev' = [NoEv EXCEPT !.op = "statusError", !.id = r, !.sid = runs[r].sid,
              !.fail = TRUE, !.req = <<"status", runs[r].sid, 0>>]
  /\ UNCHANGED <<navVars, sessVars, bookVars, startReq, batches, chatReq,
                 revokeReq, histVars, citVars, metricsVars, panelVars>>

\* the setTimeout callback of run r fires.  Timers are not modelled
\* metrically: the timeout may fire at any moment after it was armed.
synthesisTimeout(r) ==
  /\ r \in 1..Len(runs)
  /\ runs[r].timer
  /\ runs' = [runs EXCEPT ![r] = [ClearInterval(@) EXCEPT !.timer = FALSE,
                                                          !.timedOut = TRUE]]
  /\ IF runs[r].isSynthesizing
       THEN /\ isSynthesizing' = SetSynthFrom(r, FALSE)
            /\ ev' = [NoEv EXCEPT !.op = "timeout", !.id = r,
                        !.sid = runs[r].sid,
                        !.toast = <<"error", "Synthesis timed out. Please try again.">>]
       ELSE /\ UNCHANGED isSynthesizing
            /\ ev' = [NoEv EXCEPT !.op = "timeout", !.id = r,
                        !.sid = runs[r].sid]
  /\ UNCHANGED <<navVars, sessionId, documentFiles, mediaFiles,
                 imageFiles, uploadingFiles, bookVars, startReq, batches,
                 chatReq, revokeReq, histVars, citVars, metricsVars, panelVars>>

----------------------------------------------------------------------------
(* CommonBookPage: handleSendMessage, handleRevoke *)

\* strings the user can type, as sequences of characters
InputValues == {<<>>, <<" ">>, <<"q">>, <<" ", "q">>}

RECURSIVE TrimStart(_)
TrimStart(s) == IF s # <<>> /\ Head(s) = " " THEN TrimStart(Tail(s)) ELSE s

RECURSIVE TrimEnd(_)
TrimEnd(s) ==
  IF s # <<>> /\ s[Len(s)] = " " THEN TrimEnd(SubSeq(s, 1, Len(s) - 1)) ELSE s

\* a variant that does not trim
NoTrim(s) == s

\* String.prototype.trim
Trim(s) == TrimEnd(TrimStart(s))

\* citation lists a chat response may carry (any list, for rendering, is
\* drawn in InitCit)
\* JSON values of the optional citation fields: null, a number, a string
Null == [t |-> "null", n |-> 0, s |-> <<>>]
Num(k) == [t |-> "num", n |-> k, s |-> <<>>]
Str(cs) == [t |-> "str", n |-> 0, s |-> cs]

Cit(f, p, t, sn) ==
  [source_file |-> f, page_number |-> p, timestamp |-> t, snippet |-> sn]
ResponseCitations ==
  { <<>>,
    << Cit(Str(<<"a">>), Num(1), Null, "x"),
       Cit(Str(<<"a">>), Num(1), Null, "y") >> }

\* <input onChange={(e) => setInputValue(e.target.value)} disabled={isLoading}>
setInputValue(v) ==
  /\ route = "/common-book"
  /\ ~isLoading
  /\ v # inputValue
  /\ inputValue' = v
  /\ ev' = [NoEv EXCEPT !.op = "setInputValue"]
  /\ UNCHANGED <<navVars, sessVars, messages, isLoading, pdfUrl,
                 netVars, histVars, citVars, metricsVars, panelVars>>

\* answers a chat response may carry
Answers == {<<"x">>, <<"y">>}

\* a variant that puts the new message first
PrependMessage(prev, m) == <<m>> \o prev

\* setMessages(prev => [...prev, m])
AppendMessage(prev, m) == Append(prev, m)

\* a variant that checks the input only
SendRejectedNoSessionCheck == Trim(inputValue) = <<>>

\* if (!inputValue.trim() || !sessionId) return;
SendRejected == Trim(inputValue) = <<>> \/ Falsy(routeState)

\* Enter in the input or click on Send (both unavailable while isLoading)
handleSendMessage ==
  /\ route = "/common-book"
  /\ ~isLoading
  /\ IF SendRejected
       THEN /\ ev' = [NoEv EXCEPT !.op = "handleSendMessage"]
            /\ UNCHANGED <<messages, inputValue, isLoading, chatReq>>
       ELSE /\ messages' = AppendMessage(messages, [role |-> "user",
                                                    content |-> inputValue,
                                                    citations |-> <<>>])
            /\ inputValue' = <<>>
            /\ isLoading' = TRUE
            /\ chatReq' = chatReq \cup {[live |-> TRUE, sid |-> routeState,
                                         query |-> inputValue]}
            /\ ev' = [NoEv EXCEPT !.op = "handleSendMessage",
                        !.sid = routeState, !.query = inputValue,
                        !.issued = {<<"chat", routeState, 0>>}]
  /\ UNCHANGED <<navVars, sessVars, pdfUrl, startReq, batches, runs,
                 revokeReq, histVars, citVars, metricsVars, panelVars>>

\* chatQuery resolves with the answer ans and the citations cs
chatOk(q, ans, cs) ==
  /\ q \in chatReq
  /\ chatReq' = chatReq \ {q}
  /\ IF q.live
       THEN /\ messages' = AppendMessage(messages, [role |-> "assistant",
                                                    content |-> ans,
                                                    citations |-> cs])
            /\ isLoading' = FALSE
       ELSE UNCHANGED <<messages, isLoading>>
  /\ \E o \in Resolves :
       ev' = [NoEv EXCEPT !.http = o,
               !.op = "chatOk", !.sid = q.sid, !.live = q.live,
              !.query = q.query, !.answer = ans, !.citations = cs]
  /\ UNCHANGED <<navVars, sessVars, inputValue, pdfUrl, startReq,
                 batches, runs, revokeReq, histVars, citVars,
                 metricsVars, panelVars>>

\* a variant whose catch block shows nothing
chatFailSilent(q) ==
  /\ q \in chatReq
  /\ chatReq' = chatReq \ {q}
  /\ isLoading' = IF q.live THEN FALSE ELSE isLoading
  /\ \E o \in Rejects :
       ev' = [NoEv EXCEPT !.http = o, !.err = request(o),
              !.op = "chatFail", !.sid = q.sid, !.live = q.live,
              !.query = q.query,
              !.fail = TRUE, !.req = <<"chat", q.sid, 0>>]
  /\ UNCHANGED <<navVars, sessVars, messages, inputValue, pdfUrl,
                 startReq, batches, runs, revokeReq, histVars, citVars,
                 metricsVars, panelVars>>

\* chatQuery rejects
chatFail(q) ==
  /\ q \in chatReq
  /\ chatReq' = chatReq \ {q}
  /\ isLoading' = IF q.live THEN FALSE ELSE isLoading
  /\ \E o \in Rejects :
       ev' = [NoEv EXCEPT !.http = o, !.err = request(o),
              !.op = "chatFail", !.sid = q.sid, !.live = q.live,
              !.query = q.query,
              !.fail = TRUE, !.req = <<"chat", q.sid, 0>>,
              !.toast = <<"error", "Failed to get response from AI.">>]
  /\ UNCHANGED <<navVars, sessVars, messages, inputValue, pdfUrl,
                 startReq, batches, runs, revokeReq, histVars, citVars,
                 metricsVars, panelVars>>

\* a variant that does not ask
RevokeAbortedNoConfirm(confirmed) == Falsy(routeState)

\* if (!sessionId) return; if (!confirm(...)) return;
RevokeAborted(confirmed) == Falsy(routeState) \/ ~confirmed

\* click on Revoke; the user answers the confirm() dialog
handleRevoke(confirmed) ==
  /\ route = "/common-book"
  /\ IF RevokeAborted(confirmed)
       THEN /\ ev' = [NoEv EXCEPT !.op = "handleRevoke",
                        !.arg = IF confirmed THEN "confirmed" ELSE "declined"]
            /\ UNCHANGED revokeReq
       ELSE /\ revokeReq' = [revokeReq EXCEPT ![routeState] = @ + 1]
            /\ ev' = [NoEv EXCEPT !.op = "handleRevoke", !.sid = routeState,
                        !.arg = IF confirmed THEN "confirmed" ELSE "declined",
                        !.issued = {<<"revoke", routeState, 0>>}]
  /\ UNCHANGED <<navVars, sessVars, bookVars, startReq, batches, runs,
                 chatReq, histVars, citVars, metricsVars, panelVars>>

\* revokeSession resolves: success toast and navigate('/')
revokeOk(sid) ==
  /\ sid \in SessionIds
  /\ revokeReq[sid] > 0
  /\ revokeReq' = [revokeReq EXCEPT ![sid] = @ - 1]
  /\ revoked' = revoked \cup {sid}
  /\ MountLanding
  /\ batches' = NavStale("/", batches)
  /\ runs' = NavStale("/", runs)
  /\ chatReq' = NavStaleSet("/", chatReq)
  /\ \E o \in Resolves :
       ev' = [NoEv EXCEPT !.http = o,
              !.op = "revokeOk", !.sid = sid, !.nav = "/",
              !.toast = <<"success", "Session revoked successfully">>]
  /\ TopPanelUnmount("/")
  /\ UNCHANGED <<citVars, metricsVars>>

\* revokeSession rejects
revokeFail(sid) ==
  /\ sid \in SessionIds
  /\ revokeReq[sid] > 0
  /\ revokeReq' = [revokeReq EXCEPT ![sid] = @ - 1]
  /\ \E o \in Rejects :
       ev' = [NoEv EXCEPT !.http = o, !.err = request(o),
              !.op = "revokeFail", !.sid = sid, !.fail = TRUE,
              !.req = <<"revoke", sid, 0>>,
              !.toast = <<"error", "Failed to revoke session">>]
  /\ UNCHANGED <<navVars, sessVars, bookVars, startReq, batches, runs,
                 chatReq, histVars, citVars, metricsVars, panelVars>>

----------------------------------------------------------------------------
(* SessionPage: handleFileUpload *)

\* FileList | null: every list of at most MaxFiles file names, or null
NullFiles == [isNull |-> TRUE, items |-> <<>>]
FileList(items) == [isNull |-> FALSE, items |-> items]
FileLists(maxFiles) ==
  { FileList(items) : items \in UNION { [1..n -> FileNames] : n \in 0..maxFiles } }

\* a variant that trusts the tab or input the file came from
CategorizeByType(source_type, type) == type

\* the list a file is added to (lines 58-64); "none" when no branch matches
Categorize(source_type, type) ==
  IF source_type \in {"pdf", "docx", "pptx"} THEN "documents"
  ELSE IF source_type \in {"video", "audio"} THEN "media"
  ELSE IF source_type = "image" THEN "images"
  ELSE "none"

\* a variant that starts every upload at once (forEach(async ...))
IssuedAtCallAll(items) == 1..Len(items)

\* the files whose upload request goes out before the handler first awaits:
\* the for loop stops at the await of its first iteration
IssuedAtCall(items) == IF items = <<>> THEN {} ELSE {1}

\* request id of the upload of file i of batch b
UploadReq(b, i) == <<"upload", batches[b].sid, 10 * b + i>>

\* a variant that checks the file list only
UploadRejectedNoSessionCheck(files) == files.isNull

\* if (!files || !sessionId): the call is rejected
UploadRejected(files) == files.isNull \/ Falsy(sessionId)

\* onFileUpload(files, type) from one of the three inputs or drop zones
handleFileUpload(files, type) ==
  /\ route = "/session"
  /\ IF UploadRejected(files)
       THEN /\ ev' = [NoEv EXCEPT !.op = "handleFileUpload", !.type = type,
                        !.n = Len(files.items),
                        !.toast = IF Falsy(sessionId)
                                    THEN <<"error", "Session not initialized yet.">>
                                    ELSE NoToast]
            /\ UNCHANGED <<batches, uploadingFiles>>
       ELSE /\ batches' = Append(batches,
                 [files |-> files.items, type |-> type, sid |-> sessionId,
                  live |-> TRUE,
                  issued |-> Cardinality(IssuedAtCall(files.items)),
                  inflight |-> IssuedAtCall(files.items),
                  settled |-> [i \in 1..Len(files.items) |-> "pending"]])
            /\ uploadingFiles' =
                 uploadingFiles
                   \cup { files.items[i] : i \in IssuedAtCall(files.items) }
            /\ ev' = [NoEv EXCEPT !.op = "handleFileUpload",
                        !.id = Len(batches) + 1, !.n = Len(files.items),
                        !.sid = sessionId, !.type = type,
                        !.issued = { <<"upload", sessionId,
                                       10 * (Len(batches) + 1) + i>> :
                                     i \in IssuedAtCall(files.items) }]
  /\ UNCHANGED <<navVars, sessionId, isSynthesizing, documentFiles,
                 mediaFiles, imageFiles, bookVars, startReq, runs, chatReq,
                 revokeReq, histVars, citVars, metricsVars, panelVars>>

\* a variant whose finally block deletes nothing
DeleteNameForgotten(prev, name) == prev

\* finally: const next = new Set(prev); next.delete(file.name); return next
DeleteName(prev, name) == prev \ {name}

\* after file i settled with the given result: finally { delete file.name },
\* then the next iteration adds the next name and issues its request
AfterSettle(b, i, result) ==
  LET bt == batches[b]
      more == bt.issued < Len(bt.files)
      nxt == bt.issued + 1
      removed == DeleteName(uploadingFiles, bt.files[i])
  IN /\ batches' = [batches EXCEPT
                      ![b].inflight = (@ \ {i}) \cup (IF more THEN {nxt} ELSE {}),
                      ![b].issued = IF more THEN nxt ELSE @,
                      ![b].settled[i] = result]
     /\ uploadingFiles' =
          IF ~bt.live THEN uploadingFiles
          ELSE IF more THEN removed \cup {bt.files[nxt]}
          ELSE removed

\* uploadFile for file i of batch b resolves with metadata.source_type = st
uploadOk(b, i, st) ==
  /\ b \in 1..Len(batches)
  /\ i \in batches[b].inflight
  /\ LET bt == batches[b]
         list == IF bt.live THEN Categorize(st, bt.type) ELSE "none"
     IN /\ documentFiles' = IF list = "documents"
                              THEN Append(documentFiles, bt.files[i])
                              ELSE documentFiles
        /\ mediaFiles' = IF list = "media"
                           THEN Append(mediaFiles, bt.files[i])
                           ELSE mediaFiles
        /\ imageFiles' = IF list = "images"
                           THEN Append(imageFiles, bt.files[i])
                           ELSE imageFiles
        /\ \E o \in Resolves :
             ev' = [NoEv EXCEPT !.http = o,
                    !.op = "uploadOk", !.id = b, !.sid = bt.sid,
                    !.arg = bt.files[i], !.type = bt.type, !.src = st,
                    !.live = bt.live,
                    !.toast = <<"success", "Uploaded">>,
                    !.issued = IF bt.issued < Len(bt.files)
                                 THEN {UploadReq(b, bt.issued + 1)} ELSE {}]
  /\ AfterSettle(b, i, IF Categorize(st, batches[b].type) = "none"
                         THEN "unlisted" ELSE "listed")
  /\ UNCHANGED <<navVars, sessionId, isSynthesizing, bookVars,
                 startReq, runs, chatReq, revokeReq, histVars, citVars,
                 metricsVars, panelVars>>

\* a variant whose catch block gives up the rest of the batch
AfterFailureAborts(b, i) ==
  /\ batches' = [batches EXCEPT ![b].inflight = @ \ {i},
                                ![b].settled[i] = "fail"]
  /\ uploadingFiles' = IF batches[b].live
                         THEN uploadingFiles \ {batches[b].files[i]}
                         ELSE uploadingFiles

\* the catch block does not rethrow: the loop goes on as after a success
AfterFailure(b, i) == AfterSettle(b, i, "fail")

\* the number of requests of batch b issued once a failure was handled
IssuedAfterFailure(b) == batches'[b].issued

\* uploadFile for file i of batch b rejects
uploadFail(b, i) ==
  /\ b \in 1..Len(batches)
  /\ i \in batches[b].inflight
  /\ AfterFailure(b, i)
  /\ LET bt == batches[b]
     IN \E o \in Rejects :
          ev' = [NoEv EXCEPT !.http = o, !.err = request(o),
                 !.op = "uploadFail", !.id = b, !.sid = bt.sid,
                 !.arg = bt.files[i], !.type = bt.type,
                 !.live = bt.live,
                 !.fail = TRUE, !.req = UploadReq(b, i),
                 !.toast = <<"error", "Failed to upload">>,
                 !.issued = IF IssuedAfterFailure(b) > bt.issued
                              THEN {UploadReq(b, IssuedAfterFailure(b))}
                              ELSE {}]
  /\ UNCHANGED <<navVars, sessionId, isSynthesizing, documentFiles,
                 mediaFiles, imageFiles, bookVars, startReq, runs, chatReq,
                 revokeReq, histVars, citVars, metricsVars, panelVars>>

----------------------------------------------------------------------------
(* CommonBookPage: citation chips of an assistant message *)

DigitChars == <<"0", "1", "2", "3", "4", "5", "6", "7", "8", "9">>

RECURSIVE Decimal(_)
Decimal(k) ==
  IF k < 10 THEN <<DigitChars[k + 1]>>
  ELSE Decimal(k \div 10) \o <<DigitChars[(k % 10) + 1]>>

\* String(x) inside a template literal, as a sequence of characters
ToChars(x) ==
  IF x.t = "null" THEN <<"n", "u", "l", "l">>
  ELSE IF x.t = "num" THEN Decimal(x.n)
  ELSE x.s

\* `${cit.source_file}_${cit.page_number}_${cit.timestamp}`
CitKey(c) ==
  ToChars(c.source_file) \o <<"_">> \o ToChars(c.page_number) \o <<"_">>
    \o ToChars(c.timestamp)

\* a variant that finds the last index
FindLastIndex(arr, key) ==
  IF \E j \in 1..Len(arr) : CitKey(arr[j]) = key
    THEN CHOOSE j \in 1..Len(arr) :
           /\ CitKey(arr[j]) = key
           /\ \A k \in (j + 1)..Len(arr) : CitKey(arr[k]) # key
    ELSE 0

\* arr.findIndex(c => key(c) === key): the first index, 0 when none
FindIndex(arr, key) ==
  IF \E j \in 1..Len(arr) : CitKey(arr[j]) = key
    THEN CHOOSE j \in 1..Len(arr) :
           /\ CitKey(arr[j]) = key
           /\ \A k \in 1..(j - 1) : CitKey(arr[k]) # key
    ELSE 0

\* the filter predicate: idx === arr.findIndex(...)
KeepCitation(arr, idx) == idx = FindIndex(arr, CitKey(arr[idx]))

RECURSIVE FilterFrom(_, _)
FilterFrom(arr, idx) ==
  IF idx > Len(arr) THEN <<>>
  ELSE (IF KeepCitation(arr, idx) THEN <<arr[idx]>> ELSE <<>>)
         \o FilterFrom(arr, idx + 1)

\* msg.citations.filter(...): the citations that get a chip, in order
RenderCitations(arr) == FilterFrom(arr, 1)

\* citations a response may hold: two with the same triple and different
\* snippets, triples that differ only as null / "null" or in where the "_"
\* falls, and an unrelated one
Citations ==
  { Cit(Str(<<"a">>), Num(1), Null, "x"),
    Cit(Str(<<"a">>), Num(1), Null, "y"),
    Cit(Str(<<"a">>), Num(1), Str(<<"n", "u", "l", "l">>), "x"),
    Cit(Str(<<"a", "_", "1">>), Num(12), Null, "x"),
    Cit(Str(<<"a">>), Num(1), Str(<<"1", "2", "_", "n", "u", "l", "l">>), "x"),
    Cit(Str(<<"b">>), Null, Null, "x") }
CitationLists == UNION { [1..n -> Citations] : n \in 0..MaxCits }

\* an assistant message with the citations cits is rendered
renderMessage ==
  /\ ~rendered.done
  /\ rendered' = [done |-> TRUE, chips |-> RenderCitations(cits)]
  /\ UNCHANGED <<navVars, sessVars, bookVars, netVars, histVars, cits, ev,
                 metricsVars, panelVars>>

----------------------------------------------------------------------------
(* MetricsPanel: the effect that fetches metrics.json *)

\* bodies of an ok response to GET /download/{sessionId}/metrics.json
MetricsData == {"m1", "m2"}

\* setMetrics / setLoading called from a closure of effect e: a no-op once
\* the panel is unmounted
SetFromEffect(e, field, v) ==
  IF effects[e].live THEN [metricsPanel EXCEPT ![field] = v] ELSE metricsPanel

\* the effect of a render with the prop sid: nothing for a falsy sid, else
\* fetchMetrics() at once and setInterval(fetchMetrics, 5000)
NewEffect(sid) == [sid |-> sid, live |-> TRUE, interval |-> TRUE,
                   inflight |-> 1, fetches |-> 1, stored |-> FALSE]

\* the cleanup of the effect that is current: clearInterval(intervalId)
Cleanup(effs) == [k \in 1..Len(effs) |-> [effs[k] EXCEPT !.interval = FALSE]]

\* the parent renders the panel with the prop sid (undefined is NoSession):
\* a mount, or a change of the prop of the mounted panel, which runs the
\* cleanup of the previous effect and then the effect again
renderMetricsPanel(sid) ==
  /\ metricsPanel.mounted => sid # metricsPanel.sessionId
  /\ LET panel == IF metricsPanel.mounted THEN metricsPanel
                  ELSE [MetricsPanelFresh EXCEPT !.mounted = TRUE]
     IN IF Falsy(sid)
          THEN /\ metricsPanel' = [panel EXCEPT !.sessionId = sid]
               /\ effects' = Cleanup(effects)
               /\ ev' = [NoEv EXCEPT !.op = "renderMetricsPanel", !.sid = sid]
          ELSE /\ metricsPanel' = [panel EXCEPT !.sessionId = sid,
                                                !.loading = TRUE]
               /\ effects' = Append(Cleanup(effects), NewEffect(sid))
               /\ ev' = [NoEv EXCEPT !.op = "renderMetricsPanel", !.sid = sid,
                           !.id = Len(effects) + 1,
                           !.issued = {<<"metrics", sid, 1>>}]
  /\ UNCHANGED <<navVars, sessVars, bookVars, netVars, histVars, citVars,
                 panelVars>>

\* the panel unmounts: cleanup; pending fetches of its effects go stale
unmountMetricsPanel ==
  /\ metricsPanel.mounted
  /\ metricsPanel' = MetricsPanelFresh
  /\ effects' = Stale(Cleanup(effects))
  /\ ev' = [NoEv EXCEPT !.op = "unmountMetricsPanel"]
  /\ UNCHANGED <<navVars, sessVars, bookVars, netVars, histVars, citVars,
                 panelVars>>

\* the interval of effect e fires: fetchMetrics()
metricsTick(e) ==
  /\ e \in 1..Len(effects)
  /\ effects[e].interval
  /\ effects' = [effects EXCEPT ![e].inflight = @ + 1, ![e].fetches = @ + 1]
  /\ metricsPanel' = SetFromEffect(e, "loading", TRUE)
  /\ ev' = [NoEv EXCEPT !.op = "metricsTick", !.id = e, !.sid = effects[e].sid,
              !.issued = {<<"metrics", effects[e].sid, effects[e].fetches + 1>>}]
  /\ UNCHANGED <<navVars, sessVars, bookVars, netVars, histVars, citVars,
                 panelVars>>

\* a variant that keeps the interval after a success
StopPollingForgotten(eff) == eff

\* if (intervalId) { clearInterval(intervalId); intervalId = null; }
StopPolling(eff) == [eff EXCEPT !.interval = FALSE]

\* a fetch of effect e gets an ok response with the body data
metricsOk(e, data) ==
  /\ e \in 1..Len(effects)
  /\ effects[e].inflight > 0
  /\ effects' = [effects EXCEPT
                   ![e] = [StopPolling(@) EXCEPT !.inflight = @ - 1,
                                                 !.stored = @ \/ effects[e].live]]
  /\ metricsPanel' =
       IF effects[e].live
         THEN [metricsPanel EXCEPT !.metrics = data, !.loading = FALSE]
         ELSE metricsPanel
  /\ ev' = [NoEv EXCEPT !.op = "metricsOk", !.id = e, !.sid = effects[e].sid,
              !.arg = data, !.live = effects[e].live]
  /\ UNCHANGED <<navVars, sessVars, bookVars, netVars, histVars, citVars,
                 panelVars>>

\* a fetch of effect e gets a response that is not ok: console.warn
metricsNotOk(e) ==
  /\ e \in 1..Len(effects)
  /\ effects[e].inflight > 0
  /\ effects' = [effects EXCEPT ![e].inflight = @ - 1]
  /\ metricsPanel' = SetFromEffect(e, "loading", FALSE)
  /\ ev' = [NoEv EXCEPT !.op = "metricsNotOk", !.id = e,
              !.sid = effects[e].sid, !.live = effects[e].live, !.fail = TRUE,
              !.req = <<"metrics", effects[e].sid, 0>>]
  /\ UNCHANGED <<navVars, sessVars, bookVars, netVars, histVars, citVars,
                 panelVars>>

\* a fetch of effect e throws (network error, body that is not JSON):
\* console.error
metricsError(e) ==
  /\ e \in 1..Len(effects)
  /\ effects[e].inflight > 0
  /\ effects' = [effects EXCEPT ![e].inflight = @ - 1]
  /\ metricsPanel' = SetFromEffect(e, "loading", FALSE)
  /\ ev' = [NoEv EXCEPT !.op = "metricsError", !.id = e,
              !.sid = effects[e].sid, !.live = effects[e].live, !.fail = TRUE,
              !.req = <<"metrics", effects[e].sid, 0>>]
  /\ UNCHANGED <<navVars, sessVars, bookVars, netVars, histVars, citVars,
                 panelVars>>

----------------------------------------------------------------------------
(* TopUploadPanel (the version with optimistic updates): handleFileSelect *)

\* the state field that holds the list of a type
TypeField(type) ==
  IF type = "documents" THEN "documentFiles"
  ELSE IF type = "media" THEN "mediaFiles"
  ELSE "imageFiles"

\* lines 38-43: the name joins uploadingFiles and, optimistically, the list
\* of the type the user chose
Optimistic(panel, type, name) ==
  [panel EXCEPT !.uploadingFiles = @ \cup {name},
                ![TypeField(type)] = Append(@, name)]

\* lines 52-54: prev.filter(f => f !== file.name)
Rollback(list, name) == SelectSeq(list, LAMBDA f : f # name)

\* lines 56-60: the name leaves uploadingFiles
Finally(panel, name) == [panel EXCEPT !.uploadingFiles = @ \ {name}]

\* if (!files || !sessionId), sessionId being the prop passed by SessionPage
SelectRejected(files) == files.isNull \/ Falsy(sessionId)

\* a file input or a drop zone of the panel calls handleFileSelect
handleFileSelect(files, type) ==
  /\ route = "/session"
  /\ IF SelectRejected(files)
       THEN /\ ev' = [NoEv EXCEPT !.op = "handleFileSelect", !.type = type,
                        !.n = Len(files.items),
                        !.toast = IF Falsy(sessionId)
                                    THEN <<"error", "Session not initialized yet.">>
                                    ELSE NoToast]
            /\ UNCHANGED <<topUploadPanel, selects>>
       ELSE /\ selects' = Append(selects,
                 [files |-> files.items, type |-> type, sid |-> sessionId,
                  live |-> TRUE,
                  issued |-> Cardinality(IssuedAtCall(files.items)),
                  inflight |-> IssuedAtCall(files.items)])
            /\ topUploadPanel' =
                 IF files.items = <<>> THEN topUploadPanel
                 ELSE Optimistic(topUploadPanel, type, files.items[1])
            /\ ev' = [NoEv EXCEPT !.op = "handleFileSelect",
                        !.id = Len(selects) + 1, !.n = Len(files.items),
                        !.sid = sessionId, !.type = type,
                        !.issued = { <<"upload", sessionId, i>> :
                                     i \in IssuedAtCall(files.items) }]
  /\ UNCHANGED <<navVars, sessVars, bookVars, netVars, histVars, citVars,
                 metricsVars>>

\* after file i of call c settled and the panel became p: the finally block,
\* then the next iteration with its optimistic insertion and its request
NextIteration(c, i, p) ==
  LET sel == selects[c]
      more == sel.issued < Len(sel.files)
      nxt == sel.issued + 1
      done == Finally(p, sel.files[i])
  IN /\ selects' = [selects EXCEPT
                      ![c].inflight = (@ \ {i}) \cup (IF more THEN {nxt} ELSE {}),
                      ![c].issued = IF more THEN nxt ELSE @]
     /\ topUploadPanel' =
          IF ~sel.live THEN topUploadPanel
          ELSE IF more THEN Optimistic(done, sel.type, sel.files[nxt])
          ELSE done

\* uploadFile for file i of call c resolves: the optimistic entry stays
selectOk(c, i) ==
  /\ c \in 1..Len(selects)
  /\ i \in selects[c].inflight
  /\ NextIteration(c, i, topUploadPanel)
  /\ \E o \in Resolves :
       ev' = [NoEv EXCEPT !.http = o, !.op = "selectOk", !.id = c,
                !.sid = selects[c].sid, !.arg = selects[c].files[i],
                !.type = selects[c].type, !.live = selects[c].live,
                !.toast = <<"success", "Uploaded">>]
  /\ UNCHANGED <<navVars, sessVars, bookVars, netVars, histVars, citVars,
                 metricsVars>>

\* uploadFile for file i of call c rejects: error toast and rollback
selectFail(c, i) ==
  /\ c \in 1..Len(selects)
  /\ i \in selects[c].inflight
  /\ LET sel == selects[c]
         list == topUploadPanel[TypeField(sel.type)]
         rolled == Rollback(list, sel.files[i])
     IN /\ NextIteration(c, i, [topUploadPanel EXCEPT
                                  ![TypeField(sel.type)] = rolled])
        /\ \E o \in Rejects :
             ev' = [NoEv EXCEPT !.http = o, !.err = request(o),
                      !.op = "selectFail", !.id = c, !.sid = sel.sid,
                      !.arg = sel.files[i], !.type = sel.type,
                      !.live = sel.live, !.fail = TRUE,
                      !.req = <<"upload", sel.sid, i>>,
                      !.before = list, !.after = rolled,
                      !.toast = <<"error", "Failed to upload">>]
  /\ UNCHANGED <<navVars, sessVars, bookVars, netVars, histVars, citVars,
                 metricsVars>>

\* the X button of entry index (from 1) of the list of a type
removeFile(index, type) ==
  /\ route = "/session"
  /\ index \in 1..Len(topUploadPanel[TypeField(type)])
  /\ topUploadPanel' =
       [topUploadPanel EXCEPT
          ![TypeField(type)] =
             SubSeq(@, 1, index - 1) \o SubSeq(@, index + 1, Len(@))]
  /\ ev' = [NoEv EXCEPT !.op = "removeFile", !.n = index, !.type = type]
  /\ UNCHANGED <<navVars, sessVars, bookVars, netVars, histVars, citVars,
                 metricsVars, selects>>

----------------------------------------------------------------------------
(* Specifications.  The guards that bound the model are stated here, not in
   the handlers. *)

SessionNavigation ==
  \/ handleStartSession
  \/ SessionNavbarHome
  \/ OpenUrl
  \/ bookEffectNoSession

Navigation ==
  \/ SessionNavigation
  \/ onNavigateHome

SessionStart ==
  \/ \E sid \in SessionIds : initSessionOk(sid)
  \/ initSessionFail
  \/ \E ok \in BOOLEAN, more \in BOOLEAN : initSessionStale(ok, more)

Synthesis(maxRuns, maxPolls) ==
  \/ Len(runs) < maxRuns /\ handleSynthesize
  \/ \E r \in 1..maxRuns : triggerOk(r)
  \/ \E r \in 1..maxRuns : triggerFail(r)
  \/ \E r \in 1..Len(runs) : runs[r].polls < maxPolls /\ pollTick(r)
  \/ \E r \in 1..maxRuns, st \in Statuses : statusOk(r, st)
  \/ \E r \in 1..maxRuns : statusError(r)
  \/ \E r \in 1..maxRuns : synthesisTimeout(r)

Upload(maxBatches, maxFiles) ==
  \/ \E f \in FileLists(maxFiles) \cup {NullFiles}, t \in UploadTypes :
       /\ IF UploadRejected(f) THEN TRUE ELSE Len(batches) < maxBatches
       /\ handleFileUpload(f, t)
  \/ \E b \in 1..maxBatches, i \in 1..maxFiles, st \in SourceTypes :
       uploadOk(b, i, st)
  \/ \E b \in 1..maxBatches, i \in 1..maxFiles : uploadFail(b, i)

UserMessages == Len(SelectSeq(messages, LAMBDA m : m.role = "user"))

Chat(maxMessages) ==
  \/ \E v \in InputValues : setInputValue(v)
  \/ /\ IF SendRejected THEN TRUE ELSE UserMessages < maxMessages
     /\ handleSendMessage
  \/ \E q \in chatReq, ans \in Answers, cs \in ResponseCitations :
       chatOk(q, ans, cs)
  \/ \E q \in chatReq : chatFail(q)

Revoke(maxRevokes) ==
  \/ \E c \in BOOLEAN :
       /\ IF RevokeAborted(c)
            THEN TRUE ELSE revokeReq[routeState] < maxRevokes
       /\ handleRevoke(c)
  \/ \E sid \in SessionIds : revokeOk(sid)
  \/ \E sid \in SessionIds : revokeFail(sid)

\* the whole client
Next ==
  \/ Navigation
  \/ SessionStart
  \/ Synthesis(MaxRuns, MaxPolls)
  \/ Upload(MaxBatches, ClientFiles)
  \/ Chat(MaxMessages)
  \/ Revoke(MaxRevokes)
Spec == Init /\ [][Next]_vars

\* session page and synthesis runs, revoke on the common-book page
NextSynth ==
  \/ Navigation
  \/ SessionStart
  \/ Synthesis(MaxRuns, MaxPolls)
  \/ Revoke(MaxRevokes)
SpecSynth == Init /\ [][NextSynth]_vars

\* the same where the server answers every trigger and status request and
\* every armed timeout fires; what the user does is left open
SynthFairness ==
  \A r \in 1..MaxRuns :
    /\ WF_vars(triggerOk(r) \/ triggerFail(r))
    /\ WF_vars((\E st \in Statuses : statusOk(r, st)) \/ statusError(r))
    /\ WF_vars(synthesisTimeout(r))
SpecSynthFair == SpecSynth /\ SynthFairness

\* the same with two runs of two status requests each
NextWide ==
  \/ Navigation
  \/ SessionStart
  \/ Synthesis(WideRuns, WidePolls)
  \/ Revoke(MaxRevokes)
SpecWide == Init /\ [][NextWide]_vars

\* the way to the common-book page, and several chat queries there
NextBook ==
  \/ Navigation
  \/ SessionStart
  \/ Synthesis(MaxRuns, MaxPolls)
  \/ Chat(BookMessages)
  \/ Revoke(MaxRevokes)
SpecBook == Init /\ [][NextBook]_vars

\* session page: session start and uploads
NextUpload == SessionNavigation \/ SessionStart \/ Upload(MaxBatches, MaxFiles)
SpecUpload == Init /\ [][NextUpload]_vars

\* session page: upload batches that overlap in time
NextBatches ==
  \/ SessionNavigation
  \/ SessionStart
  \/ Upload(WideBatches, ClientFiles)
SpecBatches == Init /\ [][NextBatches]_vars

\* the citation renderer on every citation list of at most MaxCits entries
InitCit ==
  /\ InitClient
  /\ cits \in CitationLists
  /\ rendered = [done |-> FALSE, chips |-> <<>>]
NextCit == renderMessage
SpecCit == InitCit /\ [][NextCit]_vars

\* the metrics panel alone, rendered with any sessionId prop
NextMetrics ==
  \/ \E sid \in SessionIds \cup {NoSession} :
       Len(effects) < MaxEffects /\ renderMetricsPanel(sid)
  \/ unmountMetricsPanel
  \/ \E e \in 1..Len(effects) :
       effects[e].fetches < MaxFetches /\ metricsTick(e)
  \/ \E e \in 1..MaxEffects, d \in MetricsData : metricsOk(e, d)
  \/ \E e \in 1..MaxEffects : metricsNotOk(e)
  \/ \E e \in 1..MaxEffects : metricsError(e)
SpecMetrics == Init /\ [][NextMetrics]_vars

\* session page with the optimistic TopUploadPanel
NextPanel ==
  \/ SessionNavigation
  \/ SessionStart
  \/ \E f \in FileLists(MaxFiles) \cup {NullFiles}, t \in UploadTypes :
       /\ IF SelectRejected(f) THEN TRUE ELSE Len(selects) < MaxSelects
       /\ handleFileSelect(f, t)
  \/ \E c \in 1..MaxSelects, i \in 1..MaxFiles : selectOk(c, i)
  \/ \E c \in 1..MaxSelects, i \in 1..MaxFiles : selectFail(c, i)
  \/ \E k \in 1..MaxFiles, t \in UploadTypes : removeFile(k, t)
SpecPanel == Init /\ [][NextPanel]_vars

----------------------------------------------------------------------------
(* Claims *)

Terminal == {"completed", "failed"}
TimedOutToast == <<"error", "Synthesis timed out. Please try again.">>
Stopped(run) == run.termSeen \/ run.timedOut

\* C1: once a run has handled a 'completed' or 'failed' response, or its
\* timeout has fired, its polling interval is cleared, and no status
\* request is issued for that run afterwards.
C1_PollingStops ==
  /\ [](\A r \in 1..Len(runs) : Stopped(runs[r]) => ~runs[r].interval)
  /\ [][\A r \in 1..Len(runs) :
          Stopped(runs[r]) /\ r <= Len(runs')
            => runs'[r].polls = runs[r].polls]_vars

C1_Witness ==
  /\ ev.op = "status"
  /\ ev.arg = "failed"
  /\ runs[ev.id].timer
  /\ ~runs[ev.id].interval

\* C2: when the timeout of a run fires before any 'completed' or 'failed'
\* response was handled, polling is cancelled and the error 'Synthesis timed
\* out' is shown.
C2_TimeoutSurfaced ==
  ev.op = "timeout" /\ ~runs[ev.id].termSeen
    => ~runs[ev.id].interval /\ ev.toast = TimedOutToast

\* C3: handleFileUpload called with a non-empty file list while sessionId is
\* null (or empty) shows an error, issues no request and leaves the three
\* file lists, uploadingFiles and the batches unchanged.
C3_UploadWithoutSession ==
  [][ev'.op = "handleFileUpload" /\ ev'.n > 0
       /\ sessionId \in {NoSession, ""}
       => /\ ev'.toast = <<"error", "Session not initialized yet.">>
          /\ ev'.issued = {}
          /\ UNCHANGED <<documentFiles, mediaFiles, imageFiles,
                         uploadingFiles, batches>>]_vars

C3_Witness ==
  /\ ev.op = "handleFileUpload"
  /\ ev.n = 2
  /\ sessionId = NoSession
  /\ ev.toast = <<"error", "Session not initialized yet.">>

\* C4: sessionId is only ever the session_id that the startSession call of
\* the mounted page returned; every upload, trigger and status request
\* carries a non-empty session id, the one returned to the page that issues
\* it; after a failed startSession sessionId is still null.
C4_RequestsCarryStartedSession ==
  /\ sessionId # NoSession => sessionId = returned
  /\ \A r \in 1..Len(runs) :
       /\ runs[r].sid \notin {NoSession, ""}
       /\ runs[r].live => runs[r].sid = returned
  /\ \A b \in 1..Len(batches) :
       /\ batches[b].sid \notin {NoSession, ""}
       /\ batches[b].live => batches[b].sid = returned
  /\ \A q \in ev.issued :
       q[1] \in {"upload", "trigger", "status"}
         => /\ q[2] \notin {NoSession, ""}
            /\ q[2] = ev.sid
            /\ ev.op \in {"handleSynthesize", "handleFileUpload"}
                 => q[2] = returned
  /\ ev.op = "initSessionFail" => sessionId = NoSession /\ returned = NoSession

C4_Witness ==
  /\ ev.op = "pollTick"
  /\ ev.issued = {<<"status", "s2", 1>>}
  /\ returned = "s2"

\* C5: the rendered citations are those of the input whose (source_file,
\* page_number, timestamp) triple occurs at no earlier index, a subsequence
\* of the input in input order; no two of them have the same triple.
Triple(c) == <<c.source_file, c.page_number, c.timestamp>>
FirstOfTriple(arr, j) == \A k \in 1..(j - 1) : Triple(arr[k]) # Triple(arr[j])
RECURSIVE Pick(_, _, _)
Pick(arr, J, j) ==
  IF j > Len(arr) THEN <<>>
  ELSE (IF j \in J THEN <<arr[j]>> ELSE <<>>) \o Pick(arr, J, j + 1)
C5_CitationsDeduplicated ==
  rendered.done =>
    /\ \E J \in SUBSET (1..Len(cits)) :
         /\ rendered.chips = Pick(cits, J, 1)
         /\ \A j \in J : FirstOfTriple(cits, j)
    /\ \A k, l \in 1..Len(rendered.chips) :
         k # l => Triple(rendered.chips[k]) # Triple(rendered.chips[l])

C5_Witness ==
  /\ rendered.done
  /\ Len(cits) = 3
  /\ Triple(cits[1]) = Triple(cits[2])
  /\ cits[1] # cits[2]
  /\ Len(rendered.chips) = 2

\* C6: after a successful revoke has navigated to "/", the route carries no
\* sessionId, no session page state holds one, and no timer of a page is
\* left that issues requests with the revoked id.
C6_NoSessionAfterRevoke ==
  ev.op = "revokeOk"
    => /\ route = "/"
       /\ routeState = NoSession
       /\ sessionId = NoSession
       /\ \A r \in 1..Len(runs) : runs[r].sid = ev.sid => ~runs[r].interval

\* C7: in a batch at most one upload is in flight, the one issued last:
\* file i+1 is requested only when the request of file i has settled.
C7_SequentialUploads ==
  \A b \in 1..Len(batches) :
    /\ batches[b].inflight \subseteq {batches[b].issued}
    /\ batches[b].issued <= Len(batches[b].files)
    /\ \A q \in ev.issued :
         ev.op \in {"handleFileUpload", "uploadOk", "uploadFail"} /\ ev.id = b
           => q = UploadReq(b, batches[b].issued)

C7_Witness ==
  /\ ev.op = "uploadFail"
  /\ Len(batches[ev.id].files) = 2
  /\ batches[ev.id].issued = 2
  /\ batches[ev.id].inflight = {2}

\* C8: a successful upload appends the file name to the list named by the
\* response's source_type (pdf/docx/pptx: documents, video/audio: media,
\* image: images, any other: none) and to no other list, whatever the type
\* argument was; from an unmounted page it changes no list.
C8_ServerCategorizes ==
  [][ev'.op = "uploadOk"
       => LET to(list, types) ==
                IF ev'.live /\ ev'.src \in types
                  THEN Append(list, ev'.arg) ELSE list
          IN /\ documentFiles' = to(documentFiles, {"pdf", "docx", "pptx"})
             /\ mediaFiles' = to(mediaFiles, {"video", "audio"})
             /\ imageFiles' = to(imageFiles, {"image"})]_vars

C8_Witness ==
  /\ ev.op = "uploadOk"
  /\ ev.live
  /\ ev.type = "documents"
  /\ ev.src = "video"
  /\ mediaFiles = <<ev.arg>>
  /\ documentFiles = <<>>

\* C9 as stated: every failed HTTP call is surfaced as an error toast and the
\* handler of the failure does not issue the failed request again.
C9_EveryFailureToasted ==
  ev.fail => ev.toast[1] = "error" /\ ev.req \notin ev.issued

\* C9 amended: a failed start, upload, trigger, chat or revoke call is
\* surfaced as an error toast; a failed status poll shows no toast; in no
\* case does the handler of the failure issue the failed request again.
C9_FailuresToastedButPoll ==
  ev.fail =>
    /\ ev.op # "statusError" => ev.toast[1] = "error"
    /\ ev.op = "statusError" => ev.toast = NoToast
    /\ ev.req \notin ev.issued

C9_Witness ==
  /\ ev.op = "chatFail"
  /\ ev.live
  /\ ev.toast = <<"error", "Failed to get response from AI.">>
  /\ ~isLoading

\* C10: a status response other than 'completed' and 'failed' shows the
\* progress toast and changes neither isSynthesizing nor the route nor the
\* interval of its run, so a run that was polling goes on polling; a
\* 'completed' or 'failed' response clears the interval.
C10_OnlyCompletedAndFailedTerminal ==
  [][ev'.op = "status"
       => IF ev'.arg \in Terminal
            THEN ~runs'[ev'.id].interval /\ runs'[ev'.id].termSeen
            ELSE /\ ev'.toast = <<"info", "progress">>
                 /\ UNCHANGED <<isSynthesizing, route, routeState>>
                 /\ runs'[ev'.id].interval = runs[ev'.id].interval
                 /\ runs'[ev'.id].termSeen = runs[ev'.id].termSeen]_vars

C10_Witness ==
  /\ ev.op = "status"
  /\ ev.arg = "weird"
  /\ isSynthesizing
  /\ runs[ev.id].interval
  /\ route = "/session"

\* C11: an effect of MetricsPanel for a non-empty sessionId issues a metrics
\* request at once and arms the interval; once an ok response of the effect
\* has been stored its interval is cleared and it issues no further request;
\* a response that is not ok, or an error, leaves the stored metrics and the
\* interval as they were.
C11_MetricsPolling ==
  /\ [](\A e \in 1..Len(effects) : effects[e].stored => ~effects[e].interval)
  /\ [][/\ \A e \in 1..Len(effects) :
             effects[e].stored => effects'[e].fetches = effects[e].fetches
        /\ ev'.op = "renderMetricsPanel" /\ ev'.sid \notin {NoSession, ""}
             => /\ ev'.issued = {<<"metrics", ev'.sid, 1>>}
                /\ effects'[ev'.id].interval
                /\ effects'[ev'.id].sid = ev'.sid
        /\ ev'.op = "metricsTick" /\ effects[ev'.id].interval
             => ev'.issued # {}
        /\ ev'.op \in {"metricsNotOk", "metricsError"}
             => /\ metricsPanel'.metrics = metricsPanel.metrics
                /\ effects'[ev'.id].interval = effects[ev'.id].interval]_vars

C11_Witness ==
  /\ ev.op = "metricsOk"
  /\ ev.live
  /\ metricsPanel.metrics = "m2"
  /\ effects[ev.id].fetches = 2
  /\ effects[ev.id].inflight = 1
  /\ ~effects[ev.id].interval


\* C12: a 'completed' status response navigates to '/common-book' with the
\* sessionId of its run as route state, which is the sessionId CommonBookPage
\* reads; a 'failed' response shows the error and leaves the route alone;
\* after either, isSynthesizing of the page of the run is false.
C12_CompletedNavigatesFailedStays ==
  [][ev'.op = "status" /\ ev'.arg \in Terminal
       => /\ ev'.sid = runs[ev'.id].sid
          /\ ev'.live => ~isSynthesizing'
          /\ IF ev'.arg = "completed"
               THEN /\ route' = "/common-book"
                    /\ routeState' = ev'.sid
                    /\ pdfUrl' = PdfUrl(ev'.sid)
                    /\ ev'.toast = <<"success", "Synthesis completed!">>
               ELSE /\ UNCHANGED <<route, routeState>>
                    /\ ev'.toast = <<"error", "Synthesis failed">>]_vars

C12_Witness ==
  /\ ev.op = "status"
  /\ ev.arg = "failed"
  /\ ev.live
  /\ Len(runs) = 2
  /\ runs[2].interval
  /\ ev.id = 1
  /\ ~isSynthesizing
  /\ route = "/session"

\* C13: while CommonBookPage is mounted without a sessionId in its route
\* state the PDF URL is not set and no chat or revoke request of the page is
\* in flight; handleSendMessage and handleRevoke called there issue nothing;
\* the effect of the page shows the error and redirects to '/session'.
C13_BookWithoutSession ==
  /\ [](route = "/common-book" /\ routeState \in {NoSession, ""}
          => /\ pdfUrl = ""
             /\ chatReq = {}
             /\ \A s \in SessionIds : revokeReq[s] = 0)
  /\ [][route = "/common-book" /\ routeState \in {NoSession, ""}
          => /\ ev'.op \in {"handleSendMessage", "handleRevoke"}
                  => /\ ev'.issued = {}
                     /\ UNCHANGED <<chatReq, revokeReq, messages, isLoading,
                                    route, routeState, pdfUrl>>
             /\ ev'.op = "bookEffect"
                  => /\ route' = "/session"
                     /\ ev'.toast[1] = "error"
                     /\ pdfUrl' = ""]_vars

C13_Witness ==
  /\ ev.op = "handleSendMessage"
  /\ route = "/common-book"
  /\ routeState = NoSession
  /\ inputValue = <<"q">>
  /\ messages = <<>>
  /\ ev.issued = {}

\* C14: a run whose triggerSynthesis request failed has no polling interval
\* and no timeout timer and never issues a status request; the failure shows
\* the error toast and sets isSynthesizing of its page to false, so that the
\* button of that page is enabled again.
C14_TriggerFailure ==
  /\ [](\A r \in 1..Len(runs) :
          runs[r].trig = "fail"
            => /\ ~runs[r].interval
               /\ ~runs[r].timer
               /\ runs[r].polls = 0
               /\ runs[r].inflight = 0)
  /\ [][ev'.op = "triggerFail"
          => /\ ev'.toast = <<"error", "Failed to start synthesis.">>
             /\ ev'.live => /\ ~isSynthesizing'
                            /\ sessionId' = ev'.sid
                            /\ ~(isSynthesizing' \/ Falsy(sessionId'))]_vars

C14_Witness ==
  /\ ev.op = "triggerFail"
  /\ ev.live
  /\ route = "/session"
  /\ ~SynthButtonDisabled
  /\ runs[ev.id].trig = "fail"

AllLists == documentFiles \o mediaFiles \o imageFiles
CountIn(list, n) == Cardinality({k \in 1..Len(list) : list[k] = n})
FilesSettled(n, results) ==
  Cardinality({ bi \in (1..Len(batches)) \X (1..MaxFiles + 1) :
                  /\ batches[bi[1]].live
                  /\ bi[2] <= Len(batches[bi[1]].files)
                  /\ batches[bi[1]].files[bi[2]] = n
                  /\ batches[bi[1]].settled[bi[2]] \in results })
BatchRunsToEnd ==
  \A b \in 1..Len(batches) :
    batches[b].inflight = {}
      => /\ batches[b].issued = Len(batches[b].files)
         /\ \A i \in 1..Len(batches[b].files) :
              batches[b].settled[i] # "pending"

\* C15 as stated: a batch whose uploads have all settled has uploaded every
\* one of its files, whatever failed before; the three lists of the page
\* hold a name once for every file of that name that succeeded, and nothing
\* for a file that failed.
C15_FailureDoesNotAbortBatch ==
  /\ BatchRunsToEnd
  /\ \A n \in FileNames :
       CountIn(AllLists, n) = FilesSettled(n, {"listed", "unlisted"})

\* C15 amended: the same, where the lists hold a name once for every file of
\* that name that succeeded with a source_type of pdf, docx, pptx, video,
\* audio or image; a success with any other source_type adds nothing.
C15_FailureDoesNotAbortListedBatch ==
  /\ BatchRunsToEnd
  /\ \A n \in FileNames :
       CountIn(AllLists, n) = FilesSettled(n, {"listed"})

C15_Witness ==
  /\ ev.op = "uploadOk"
  /\ ev.live
  /\ Len(batches) = 1
  /\ batches[1].files = <<"a", "b">>
  /\ batches[1].settled = <<"fail", "listed">>
  /\ AllLists = <<"b">>
  /\ uploadingFiles = {}

\* C16: a call of a client method whose response is not ok rejects with an
\* 'API Error', and a call resolves only when the response is ok; the caller
\* of a call that rejected changes neither the session id nor the file lists
\* nor the messages nor the route.
C16_NotOkRejects ==
  [][ev'.http # "none"
       => /\ ev'.http = "notok" => ev'.fail /\ ev'.err = "API Error"
          /\ ~ev'.fail => ev'.http = "ok"
          /\ ev'.fail
               => UNCHANGED <<sessionId, documentFiles, mediaFiles,
                              imageFiles, messages, route, routeState>>]_vars

C16_Witness ==
  /\ ev.op = "chatFail"
  /\ ev.http = "notok"
  /\ ev.err = "API Error"
  /\ ev.live
  /\ Len(messages) = 1
  /\ route = "/common-book"

\* C17: handleSendMessage called while the input is empty or holds only
\* blanks issues no chat request and leaves messages, inputValue, isLoading
\* and the requests in flight as they were.
C17_BlankInputIsNoOp ==
  [][ev'.op = "handleSendMessage"
       /\ (\A k \in 1..Len(inputValue) : inputValue[k] = " ")
       => /\ ev'.issued = {}
          /\ UNCHANGED <<messages, inputValue, isLoading, chatReq>>]_vars

C17_Witness ==
  /\ ev.op = "handleSendMessage"
  /\ inputValue = <<" ">>
  /\ route = "/common-book"
  /\ routeState = "s1"
  /\ messages = <<>>
  /\ ~isLoading

UserMessage(content) ==
  [role |-> "user", content |-> content, citations |-> <<>>]

\* C18: messages of a mounted CommonBookPage only grows, by one message at
\* the end: sending a query appends the user message in the step that issues
\* the request; a successful response appends one assistant message, right
\* after the user message of its query; a failed request appends nothing;
\* after either isLoading is false.  Every assistant message directly
\* follows a user message.
C18_MessagesAppendOnly ==
  /\ [](\A k \in 1..Len(messages) :
          messages[k].role = "assistant"
            => k > 1 /\ messages[k - 1].role = "user")
  /\ [][/\ messages' # messages /\ messages' # <<>>
             => /\ Len(messages') = Len(messages) + 1
                /\ SubSeq(messages', 1, Len(messages)) = messages
        /\ ev'.op = "handleSendMessage" /\ ev'.issued # {}
             => /\ messages' = Append(messages, UserMessage(inputValue))
                /\ ev'.query = inputValue
        /\ ev'.op = "chatOk" /\ ev'.live
             => /\ messages' = Append(messages,
                                        [role |-> "assistant",
                                         content |-> ev'.answer,
                                         citations |-> ev'.citations])
                /\ messages[Len(messages)] = UserMessage(ev'.query)
                /\ ~isLoading'
        /\ ev'.op = "chatFail" /\ ev'.live
             => /\ messages' = messages
                /\ messages[Len(messages)] = UserMessage(ev'.query)
                /\ ~isLoading']_vars

C18_Witness ==
  /\ ev.op = "chatOk"
  /\ ev.live
  /\ Len(messages) = 3
  /\ messages[1].role = "user"
  /\ messages[2].role = "user"
  /\ messages[3].role = "assistant"
  /\ messages[3].content = <<"y">>
  /\ Len(messages[3].citations) = 2
  /\ ~isLoading

\* C19: a revoke request is issued only by a handleRevoke whose confirm()
\* was accepted; a declined handleRevoke issues nothing and changes nothing
\* of the page; a failed revoke shows the error toast and leaves the route,
\* the sessionId of the page, its PDF URL and its messages as they were.
C19_RevokeConfirmedOrNothing ==
  [][/\ (\E s \in SessionIds : revokeReq'[s] > revokeReq[s])
          => ev'.op = "handleRevoke" /\ ev'.arg = "confirmed"
     /\ ev'.op = "handleRevoke" /\ ev'.arg = "confirmed"
          /\ routeState \notin {NoSession, ""}
          => /\ ev'.issued = {<<"revoke", routeState, 0>>}
             /\ revokeReq'[routeState] = revokeReq[routeState] + 1
     /\ ev'.op = "handleRevoke" /\ ev'.arg = "declined"
          => /\ ev'.issued = {}
             /\ ev'.toast = NoToast
             /\ UNCHANGED <<revokeReq, navVars, bookVars, sessVars, chatReq>>
     /\ ev'.op = "revokeFail"
          => /\ ev'.toast = <<"error", "Failed to revoke session">>
             /\ ev'.nav = ""
             /\ UNCHANGED <<navVars, bookVars>>]_vars

C19_Witness ==
  /\ ev.op = "revokeFail"
  /\ route = "/common-book"
  /\ routeState = ev.sid
  /\ ev.sid = "s1"
  /\ pdfUrl = PdfUrl("s1")
  /\ ev.sid \notin revoked

\* C20: the rollback after a failed upload of the optimistic TopUploadPanel
\* takes exactly the optimistically inserted entry out of the list: of the
\* failed name one occurrence less than before the rollback, of every other
\* name as many as before, also when the name occurs more than once.
C20_RollbackRestoresList ==
  ev.op = "selectFail" /\ ev.live
    => \A n \in FileNames :
         CountIn(ev.after, n) =
           IF n = ev.arg /\ CountIn(ev.before, n) > 0
             THEN CountIn(ev.before, n) - 1
             ELSE CountIn(ev.before, n)

\* C21: whenever every upload batch of the mounted session page has
\* finished (nothing of it is in flight), uploadingFiles is empty; the step
\* that issues the upload request of a file has put its name into
\* uploadingFiles, and the step that handles the outcome of an upload,
\* success or failure, has taken its name out (unless the same step put it
\* back for the next file of the batch).
C21_UploadingFilesEmptied ==
  /\ []((\A b \in 1..Len(batches) :
           batches[b].live => batches[b].inflight = {})
          => uploadingFiles = {})
  /\ [][ev'.op \in {"handleFileUpload", "uploadOk", "uploadFail"}
          /\ ev'.id > 0 /\ batches'[ev'.id].live
          => LET bt == batches'[ev'.id]
             IN /\ ev'.issued # {} => bt.files[bt.issued] \in uploadingFiles'
                /\ ev'.op # "handleFileUpload" /\ ev'.arg \in uploadingFiles'
                     => ev'.issued # {} /\ bt.files[bt.issued] = ev'.arg]_vars

C21_Witness ==
  /\ ev.op = "uploadFail"
  /\ ev.live
  /\ Len(batches) = 2
  /\ batches[1].files = <<"a">>
  /\ batches[2].files = <<"a">>
  /\ batches[1].settled = <<"listed">>
  /\ batches[2].settled = <<"fail">>
  /\ ev.id = 1 \/ ev.id = 2
  /\ uploadingFiles = {}

\* C22: whenever isSynthesizing is true it is false again later: a trigger
\* failure, a 'completed' or 'failed' response or, at the latest, the
\* timeout of the run sets it back, so that the button is not disabled
\* forever.
C22_SynthesizingEnds == isSynthesizing ~> ~isSynthesizing

\* C23: for one run the 'completed' branch (notification and navigation to
\* '/common-book') is taken at most once and the 'failed' branch
\* (notification) is taken at most once, also when several status requests
\* of the run are in flight together.
C23_TerminalActionsOnce ==
  [][ev'.op = "status" /\ ev'.arg \in Terminal
       => ev'.arg \notin runs[ev'.id].handled]_vars

=============================================================================
